---- MODULE Spec2Model ----
(***************************************************************************)
(* UVTransport (uvloop/handles/transport.pyx): the stream transport that   *)
(* sits between a libuv stream handle and an asyncio protocol.             *)
(*                                                                         *)
(* Every method of the class is an operator over a "world" record w: the   *)
(* transport object (w.self), the loop's queue of deferred handles         *)
(* (w.ready), the listener's attach and detach counts (w.active) and what  *)
(* the running handler has done so far: the protocol callbacks it invoked  *)
(* (w.calls), the contexts it passed to loop.call_exception_handler        *)
(* (w.reported) and the exception it is propagating (w.raised).  A method  *)
(* that calls another method applies that method's operator, so an action  *)
(* is one whole handler.  The event loop is single-threaded: handlers run  *)
(* to completion one after another.                                        *)
(*                                                                         *)
(* UVStream, the base class (stream handle), is not part of transport.pyx; *)
(* its primitives are modelled from the specification's description of the *)
(* stream-handle contract.                                                 *)
(***************************************************************************)
EXTENDS Integers, Sequences, FiniteSets, TLC

\* ------------------------------------------------------------- bounds ----
\* write() calls with a non-empty payload, per transport.
MaxWrites == 3
\* Largest payload of one write(), in bytes (0 is the empty payload).
MaxChunk == 2
\* Largest explicit argument of set_write_buffer_limits().
MaxLimit == 2

\* ---------------------------------------------------------- constants ----
\* The default thresholds.  The module that defines them is not among the
\* sources; the specification gives the high one as a fixed constant and the
\* low one as a fixed low constant.  The model keeps their ratio (the low
\* default is a quarter of the high default) at a size the payloads reach.
FLOW_CONTROL_HIGH_WATER == 4
FLOW_CONTROL_LOW_WATER == 1

None == "None"
TheProtocol == "protocol"
TheServer == "server"

\* The transports of the model, and those the specifications below drive
\* through the API.  Transports share nothing but the loop's queue and the
\* listener's count, neither of which a transport method reads.
Transports == {"T1", "T2"}
Driven == {"T1"}

\* What a protocol callback does: return, or raise an exception.
CallbackOutcomes == {"return", "raise"}
\* What eof_received() does: its (truthy or falsy) result, or an exception.
EofOutcomes == {"keep_open", "close", "raise"}
\* The exceptions a fatal error is reported with.
FatalErrors == {"BrokenPipeError", "ConnectionResetError", "ConnectionAbortedError", "OSError"}

VARIABLES
  tr,        \* tr[t]: the fields of transport t (UVTransport and its UVStream base)
  proto,     \* proto[t]: what t's protocol has observed over the whole run
  ready,     \* the loop's queue of deferred handles, <<t, method>>
  active,    \* the listener's _attach and _detach calls so far, by calling
             \* transport; their difference is its count of active connections
  nwrites,   \* nwrites[t]: non-empty write() calls made so far
  last       \* the most recent handler: transport, name, arguments (and what the
             \* flow-control callback it invoked did), callbacks, reports, exception

vars == <<tr, proto, ready, active, nwrites, last>>

\* ------------------------------------------------- UVTransport.__cinit__ --
__cinit__ ==
  [ _protocol               |-> None,
    _protocol_data_received |-> None,
    _protocol_connected     |-> FALSE,
    _protocol_paused        |-> FALSE,
    _eof                    |-> FALSE,
    _closing                |-> FALSE,
    _conn_lost              |-> 0,
    _flow_control_enabled   |-> TRUE,
    _high_water             |-> FLOW_CONTROL_HIGH_WATER,
    _low_water              |-> FLOW_CONTROL_LOW_WATER,
    _server                 |-> None,
    \* the stream handle underneath (UVStream / UVHandle)
    _closed                 |-> FALSE,
    reading                 |-> FALSE,
    write_buffer_size       |-> 0,
    shutdowns               |-> 0,
    accepted                |-> FALSE ]

\* The protocol double: counts of the lifecycle callbacks it received and the
\* last flow-control callback it received.
NewProtocol ==
  [ connection_made |-> 0, connection_lost |-> 0, flow |-> None ]

\* ------------------------------------------------------- the world -------
\* The world a handler on transport t starts from.
World(t) ==
  [ t        |-> t,
    self     |-> tr[t],
    proto    |-> proto[t],
    ready    |-> ready,
    active   |-> active,
    calls    |-> << >>,
    reported |-> << >>,
    raised   |-> None ]

\* ------------------------------------------- stream handle (UVStream) ----
_get_write_buffer_size(w) == w.self.write_buffer_size

_is_reading(w) == w.self.reading

UVStream_write(w, n) ==
  [w EXCEPT !.self.write_buffer_size = @ + n]

_start_reading(w) == [w EXCEPT !.self.reading = TRUE]

_stop_reading(w) == [w EXCEPT !.self.reading = FALSE]

\* Half-close of the handle's write side.
_shutdown(w) == [w EXCEPT !.self.shutdowns = @ + 1]

\* Release of the handle.
_close(w) == [w EXCEPT !.self._closed = TRUE]

\* ------------------------------------------------------------ the loop ---
\* loop._call_soon_handle(handle): the handle joins the queue of ready handles.
_call_soon_handle(w, method) ==
  [w EXCEPT !.ready = Append(@, <<w.t, method>>)]

\* loop.call_exception_handler(context)
call_exception_handler(w, message) ==
  [w EXCEPT !.reported = Append(@, message)]

\* -------------------------------------------------- the listener (Server) -
\* Server._attach(), called by transport w.t: one more active connection.
_attach(w) == [w EXCEPT !.active.attached[w.t] = @ + 1]

\* Server._detach(), called by transport w.t: one active connection less.
_detach(w) == [w EXCEPT !.active.detached[w.t] = @ + 1]

\* The number of calls counted in f, over all transports.
Calls(f) == Cardinality(UNION {{t} \X (1..f[t]) : t \in Transports})

\* The listener's count of active connections.
ActiveCount(a) == Calls(a.attached) - Calls(a.detached)

\* -------------------------------------------------------- the protocol ---
\* Whether an attribute lookup on self._protocol finds a protocol.
HasProtocol(w) == w.self._protocol # None

\* The protocol records a callback it receives.
Received(w, name) ==
  [w EXCEPT !.calls = Append(@, name),
            !.proto = CASE name = "connection_made" -> [@ EXCEPT !.connection_made = @ + 1]
                        [] name = "connection_lost" -> [@ EXCEPT !.connection_lost = @ + 1]
                        [] name \in {"pause_writing", "resume_writing"} -> [@ EXCEPT !.flow = name]
                        [] OTHER -> @]

\* The exception a call self._protocol.<name>() ends with: None when the
\* callback returns, AttributeError when self._protocol is None.
CallbackException(w, cb) ==
  IF ~HasProtocol(w) THEN "AttributeError"
  ELSE IF cb = "raise" THEN "Exception"
  ELSE None

\* The world after the call self._protocol.<name>(), its exception aside.
Callback(w, name) ==
  IF HasProtocol(w) THEN Received(w, name) ELSE w

\* ---------------------------------------------------------- UVTransport --
_set_server(w) ==
  _attach([w EXCEPT !.self._server = TheServer])

_set_protocol(w) ==
  [w EXCEPT !.self._protocol = TheProtocol,
            !.self._protocol_data_received = TheProtocol]

\* Mutant of _maybe_pause_protocol: the call of pause_writing() is not in a
\* try block, so its exception leaves the method.
_maybe_pause_protocol_unguarded(w, cb) ==
  IF ~w.self._flow_control_enabled THEN w
  ELSE IF w.self.write_buffer_size <= w.self._high_water THEN w
  ELSE IF ~w.self._protocol_paused
    THEN [Callback([w EXCEPT !.self._protocol_paused = TRUE], "pause_writing")
            EXCEPT !.raised = CallbackException(w, cb)]
  ELSE w

\* Mutant of _maybe_pause_protocol: the "not self._protocol_paused" test is
\* missing, so an already paused protocol is paused again.
_maybe_pause_protocol_repeated(w, cb) ==
  IF ~w.self._flow_control_enabled THEN w
  ELSE IF w.self.write_buffer_size <= w.self._high_water THEN w
  ELSE LET w1 == Callback([w EXCEPT !.self._protocol_paused = TRUE], "pause_writing")
       IN  IF CallbackException(w, cb) # None
             THEN call_exception_handler(w1, "protocol.pause_writing() failed")
             ELSE w1

\* cb: what protocol.pause_writing() does if it is called.
_maybe_pause_protocol(w, cb) ==
  IF ~w.self._flow_control_enabled THEN w
  ELSE IF _get_write_buffer_size(w) <= w.self._high_water THEN w
  ELSE IF ~w.self._protocol_paused
    THEN LET w1 == Callback([w EXCEPT !.self._protocol_paused = TRUE], "pause_writing")
         IN  IF CallbackException(w, cb) # None
               THEN call_exception_handler(w1, "protocol.pause_writing() failed")
               ELSE w1
  ELSE w

\* Mutant of _maybe_resume_protocol: the size is compared with "<" instead of
\* "<=", so a buffer exactly at the low-water mark does not resume.
_maybe_resume_protocol_strict(w, cb) ==
  IF ~w.self._flow_control_enabled THEN w
  ELSE IF w.self._protocol_paused /\ w.self.write_buffer_size < w.self._low_water
    THEN LET w1 == Callback([w EXCEPT !.self._protocol_paused = FALSE], "resume_writing")
         IN  IF CallbackException(w, cb) # None
               THEN call_exception_handler(w1, "protocol.resume_writing() failed")
               ELSE w1
  ELSE w

\* cb: what protocol.resume_writing() does if it is called.
_maybe_resume_protocol(w, cb) ==
  IF ~w.self._flow_control_enabled THEN w
  ELSE IF w.self._protocol_paused /\ _get_write_buffer_size(w) <= w.self._low_water
    THEN LET w1 == Callback([w EXCEPT !.self._protocol_paused = FALSE], "resume_writing")
         IN  IF CallbackException(w, cb) # None
               THEN call_exception_handler(w1, "protocol.resume_writing() failed")
               ELSE w1
  ELSE w

\* cb: what protocol.connection_made() does if it is called.
_call_connection_made(w, cb) ==
  IF w.self._protocol = None
    THEN [w EXCEPT !.raised = "RuntimeError"]
  ELSE LET w1 == Callback(w, "connection_made")
       IN  IF CallbackException(w, cb) # None
             THEN [w1 EXCEPT !.raised = CallbackException(w, cb)]
             \* only start reading when connection_made() has been called
             ELSE _start_reading([w1 EXCEPT !.self._protocol_connected = TRUE])

_schedule_call_connection_made(w) ==
  _call_soon_handle(w, "_call_connection_made")

\* Mutant of Finalize: the cleanup block is missing, so the handle is never
\* released and the protocol reference is never cleared.
Finalize_missing(w) == w

\* Mutant of Finalize: the cleanup forgets the listener.
Finalize_without_detach(w) ==
  _close([w EXCEPT !.self._protocol = None,
                   !.self._protocol_data_received = None,
                   !.self._server = None])

\* The finally block of _call_connection_lost.
Finalize(w) ==
  LET w1 == [w EXCEPT !.self._protocol = None,
                      !.self._protocol_data_received = None]
      w2 == IF w1.self._server # None
              THEN [_detach(w1) EXCEPT !.self._server = None]
              ELSE w1
  IN  _close(w2)

\* Mutant of _call_connection_lost: connection_lost() is called whether or not
\* connection_made() was delivered.
_call_connection_lost_ungated(w, cb) ==
  IF w.self._closed THEN w
  ELSE Finalize([Callback(w, "connection_lost") EXCEPT !.raised = CallbackException(w, cb)])

\* Mutant of _call_connection_lost: the cleanup is not in a finally block, so
\* an exception of connection_lost() skips it.
_call_connection_lost_no_finally(w, cb) ==
  IF w.self._closed THEN w
  ELSE IF w.self._protocol_connected
    THEN IF CallbackException(w, cb) # None
           THEN [Callback(w, "connection_lost") EXCEPT !.raised = CallbackException(w, cb)]
           ELSE Finalize(Callback(w, "connection_lost"))
  ELSE Finalize(w)

\* cb: what protocol.connection_lost() does if it is called.
_call_connection_lost(w, cb) ==
  IF w.self._closed THEN w
  ELSE IF w.self._protocol_connected
    THEN Finalize([Callback(w, "connection_lost") EXCEPT !.raised = CallbackException(w, cb)])
  ELSE Finalize(w)

_schedule_call_connection_lost(w) ==
  _call_soon_handle(w, "_call_connection_lost")

_force_close(w) ==
  IF w.self._conn_lost # 0 \/ w.self._closed THEN w
  ELSE LET w1 == IF ~w.self._closing
                   THEN _stop_reading([w EXCEPT !.self._closing = TRUE])
                   ELSE w
       IN  _schedule_call_connection_lost([w1 EXCEPT !.self._conn_lost = @ + 1])

_fatal_error(w, exc) ==
  LET w1 == IF exc \notin {"BrokenPipeError", "ConnectionResetError", "ConnectionAbortedError"}
              THEN call_exception_handler(w, "Fatal error on transport")
              ELSE w
  IN  _force_close(w1)

abort(w) == _force_close(w)

\* Mutant of close: the write buffer is not looked at, the final callback is
\* scheduled at once.
close_without_drain(w) ==
  IF w.self._closing \/ w.self._closed THEN w
  ELSE _schedule_call_connection_lost(
         [_stop_reading([w EXCEPT !.self._closing = TRUE]) EXCEPT !.self._conn_lost = @ + 1])

close(w) ==
  IF w.self._closing \/ w.self._closed THEN w
  ELSE LET w1 == _stop_reading([w EXCEPT !.self._closing = TRUE])
       IN  IF _get_write_buffer_size(w1) = 0
             THEN _schedule_call_connection_lost([w1 EXCEPT !.self._conn_lost = @ + 1])
             ELSE w1

is_closing(w) == w.self._closing

_on_accept(w) == _schedule_call_connection_made(w)

\* cb: what protocol.data_received() does.
_on_read(w, cb) ==
  IF w.self._protocol_data_received = None
    THEN [w EXCEPT !.raised = "TypeError"]
  ELSE [Received(w, "data_received") EXCEPT !.raised = IF cb = "raise" THEN "Exception" ELSE None]

\* eof: what protocol.eof_received() does.
_on_eof(w, eof) ==
  IF ~HasProtocol(w) THEN [w EXCEPT !.raised = "AttributeError"]
  ELSE LET w1 == Received(w, "eof_received")
       IN  CASE eof = "raise"     -> [w1 EXCEPT !.raised = "Exception"]
             [] eof = "keep_open" -> _stop_reading(w1)
             [] OTHER             -> close(w1)

_write(w, n, cb) ==
  _maybe_pause_protocol(UVStream_write(w, n), cb)

\* Mutant of _on_write: the hook does not finalize a closing transport when
\* the buffer has drained.
_on_write_without_teardown(w, cb_resume, cb_lost) ==
  LET w1 == _maybe_resume_protocol(w, cb_resume)
  IN  IF w1.self.write_buffer_size = 0 /\ ~w1.self._closing /\ w1.self._eof
        THEN _shutdown(w1)
        ELSE w1

\* cb_resume, cb_lost: what resume_writing() and connection_lost() do if called.
_on_write(w, cb_resume, cb_lost) ==
  LET w1 == _maybe_resume_protocol(w, cb_resume)
  IN  IF _get_write_buffer_size(w1) = 0
        THEN IF w1.self._closing THEN _call_connection_lost(w1, cb_lost)
             ELSE IF w1.self._eof THEN _shutdown(w1)
             ELSE w1
        ELSE w1

\* Mutant of _set_write_buffer_limits: the "high >= low >= 0" test is missing.
_set_write_buffer_limits_unchecked(w, high, low, cb) ==
  LET high1 == IF high = -1
                 THEN IF low = -1 THEN FLOW_CONTROL_HIGH_WATER
                                  ELSE FLOW_CONTROL_LOW_WATER
                 ELSE high
      low1  == IF low = -1 THEN high1 \div 4 ELSE low
  IN  _maybe_resume_protocol(
        _maybe_pause_protocol(
          [w EXCEPT !.self._high_water = high1, !.self._low_water = low1], cb), cb)

\* high, low: C ints, -1 for "not given".
_set_write_buffer_limits(w, high, low, cb) ==
  LET high1 == IF high = -1
                 THEN IF low = -1 THEN FLOW_CONTROL_HIGH_WATER
                                  ELSE FLOW_CONTROL_LOW_WATER
                 ELSE high
      low1  == IF low = -1 THEN high1 \div 4 ELSE low
  IN  IF ~(high1 >= low1 /\ low1 >= 0)
        THEN [w EXCEPT !.raised = "ValueError"]
        ELSE _maybe_resume_protocol(
               _maybe_pause_protocol(
                 [w EXCEPT !.self._high_water = high1, !.self._low_water = low1], cb), cb)

\* Mutant of write: the loss counter is tested before the EOF flag.
write_lost_first(w, n, cb) ==
  IF n = 0 THEN w
  ELSE IF w.self._conn_lost # 0 THEN [w EXCEPT !.self._conn_lost = @ + 1]
  ELSE IF w.self._eof THEN [w EXCEPT !.raised = "RuntimeError"]
  ELSE _maybe_pause_protocol(_write(w, n, cb), cb)

\* n: the length of buf.
write(w, n, cb) ==
  IF w.self._eof THEN [w EXCEPT !.raised = "RuntimeError"]
  ELSE IF n = 0 THEN w
  ELSE IF w.self._conn_lost # 0 THEN [w EXCEPT !.self._conn_lost = @ + 1]
  ELSE _maybe_pause_protocol(_write(w, n, cb), cb)

\* Mutant of write_eof: the early return on _eof is missing.
write_eof_repeated(w) ==
  LET w1 == [w EXCEPT !.self._eof = TRUE]
  IN  IF w1.self.write_buffer_size = 0 THEN _shutdown(w1) ELSE w1

write_eof(w) ==
  IF w.self._eof THEN w
  ELSE LET w1 == [w EXCEPT !.self._eof = TRUE]
       IN  IF _get_write_buffer_size(w1) = 0 THEN _shutdown(w1) ELSE w1

pause_reading(w) ==
  IF w.self._closing THEN [w EXCEPT !.raised = "RuntimeError"]
  ELSE IF ~_is_reading(w) THEN [w EXCEPT !.raised = "RuntimeError"]
  ELSE _stop_reading(w)

resume_reading(w) ==
  IF _is_reading(w) THEN [w EXCEPT !.raised = "RuntimeError"]
  ELSE IF w.self._closing THEN w
  ELSE _start_reading(w)

\* high, low: << >> for None, <<i>> for the int i.
set_write_buffer_limits(w, high, low, cb) ==
  _set_write_buffer_limits(w, IF high = << >> THEN -1 ELSE high[1],
                              IF low = << >> THEN -1 ELSE low[1], cb)

\* ------------------------------------------------------------- actions --
Init ==
  /\ tr = [t \in Transports |-> __cinit__]
  /\ proto = [t \in Transports |-> NewProtocol]
  /\ ready = << >>
  /\ active = [attached |-> [t \in Transports |-> 0],
               detached |-> [t \in Transports |-> 0]]
  /\ nwrites = [t \in Transports |-> 0]
  /\ last = [t |-> None, op |-> None, args |-> << >>, calls |-> << >>,
             reported |-> << >>, raised |-> None]

\* The handler `op` ran on w.t with the arguments `args` and left the world w.
ApplyWith(w, op, args) ==
  /\ tr' = [tr EXCEPT ![w.t] = w.self]
  /\ proto' = [proto EXCEPT ![w.t] = w.proto]
  /\ ready' = w.ready
  /\ active' = w.active
  /\ last' = [t |-> w.t, op |-> op, args |-> args, calls |-> w.calls,
              reported |-> w.reported, raised |-> w.raised]

\* A handler whose arguments no property refers to.
Apply(w, op) == ApplyWith(w, op, << >>)

\* What the protocol did in the flow-control callback that the handler which
\* left the world w invoked (cb), or nothing if it invoked none.
FlowOutcome(w, cb) ==
  IF \E i \in 1..Len(w.calls) : w.calls[i] \in {"pause_writing", "resume_writing"}
    THEN <<cb>>
    ELSE << >>

\* The code that creates a transport attaches it to its listener (if it has
\* one) and binds its protocol before any handler can run on it: the loop is
\* single-threaded and the transport is not yet known to anyone else.
\* Teardown clears _protocol and sets _closed together, so a transport with
\* neither is one still being set up.
Created(t) == tr[t]._protocol # None \/ tr[t]._closed

\* The listener that accepted the connection attaches it, once.
SetServer(t) ==
  /\ ~Created(t)
  /\ tr[t]._server = None
  /\ Apply(_set_server(World(t)), "_set_server")
  /\ UNCHANGED nwrites

\* The creator of the transport binds its protocol, once.
SetProtocol(t) ==
  /\ ~Created(t)
  /\ Apply(_set_protocol(World(t)), "_set_protocol")
  /\ UNCHANGED nwrites

\* The stream handle reports the accepted (or established) connection, once.
OnAccept(t) ==
  /\ Created(t)
  /\ ~tr[t].accepted
  /\ ~tr[t]._closed
  /\ Apply(_on_accept([World(t) EXCEPT !.self.accepted = TRUE]), "_on_accept")
  /\ UNCHANGED nwrites

\* The stream handle delivers bytes it read.
OnRead(t) ==
  /\ Created(t)
  /\ tr[t].reading
  /\ ~tr[t]._closed
  /\ \E cb \in CallbackOutcomes : Apply(_on_read(World(t), cb), "_on_read")
  /\ UNCHANGED nwrites

\* The stream handle reports the peer's EOF.
OnEof(t) ==
  /\ Created(t)
  /\ tr[t].reading
  /\ ~tr[t]._closed
  /\ \E eof \in EofOutcomes : Apply(_on_eof(World(t), eof), "_on_eof")
  /\ UNCHANGED nwrites

\* The stream handle has flushed n buffered bytes and reports the completion.
OnWrite(t) ==
  /\ Created(t)
  /\ ~tr[t]._closed
  /\ tr[t].write_buffer_size > 0
  /\ \E n \in 1..tr[t].write_buffer_size, cb_resume \in CallbackOutcomes, cb_lost \in CallbackOutcomes :
       LET w == _on_write([World(t) EXCEPT !.self.write_buffer_size = @ - n],
                          cb_resume, cb_lost)
       IN  ApplyWith(w, "_on_write", FlowOutcome(w, cb_resume))
  /\ UNCHANGED nwrites

\* An I/O operation of the handle failed.
FatalError(t) ==
  /\ Created(t)
  /\ \E exc \in FatalErrors :
       ApplyWith(_fatal_error(World(t), exc), "_fatal_error", <<exc>>)
  /\ UNCHANGED nwrites

Abort(t) ==
  /\ Created(t)
  /\ Apply(abort(World(t)), "abort")
  /\ UNCHANGED nwrites

Close(t) ==
  /\ Created(t)
  /\ Apply(close(World(t)), "close")
  /\ UNCHANGED nwrites

Write(t) ==
  \E n \in 0..MaxChunk, cb \in CallbackOutcomes :
    /\ Created(t)
    /\ n > 0 => nwrites[t] < MaxWrites
    /\ LET w == write(World(t), n, cb)
       IN  ApplyWith(w, "write", FlowOutcome(w, cb))
    /\ nwrites' = [nwrites EXCEPT ![t] = IF n > 0 THEN @ + 1 ELSE @]

WriteEof(t) ==
  /\ Created(t)
  /\ Apply(write_eof(World(t)), "write_eof")
  /\ UNCHANGED nwrites

PauseReading(t) ==
  /\ Created(t)
  /\ Apply(pause_reading(World(t)), "pause_reading")
  /\ UNCHANGED nwrites

ResumeReading(t) ==
  /\ Created(t)
  /\ Apply(resume_reading(World(t)), "resume_reading")
  /\ UNCHANGED nwrites

\* The limits a caller passes: None (<< >>), or an int i (<<i>>).
LimitArgs == {<< >>} \cup {<<i>> : i \in 0..MaxLimit}

\* The values a caller passes for low: those of LimitArgs and a negative int.
LowArgs == LimitArgs \cup {<<-2>>}

SetWriteBufferLimits(t) ==
  /\ Created(t)
  /\ \E high \in LimitArgs, low \in LowArgs, cb \in CallbackOutcomes :
       LET w == set_write_buffer_limits(World(t), high, low, cb)
       IN  ApplyWith(w, "set_write_buffer_limits", <<high, low>> \o FlowOutcome(w, cb))
  /\ UNCHANGED nwrites

\* The loop runs the oldest deferred handle.
RunDeferred ==
  /\ ready # << >>
  /\ LET t  == Head(ready)[1]
         m  == Head(ready)[2]
         w  == [World(t) EXCEPT !.ready = Tail(ready)]
     IN  \E cb \in CallbackOutcomes :
           IF m = "_call_connection_made"
             THEN Apply(_call_connection_made(w, cb), m)
             ELSE Apply(_call_connection_lost(w, cb), m)
  /\ UNCHANGED nwrites

\* The lifecycle and data-path handlers of transport t: everything but
\* set_write_buffer_limits(), so the thresholds stay at their defaults.
Handler(t) ==
  \/ OnAccept(t)
  \/ OnRead(t)
  \/ OnEof(t)
  \/ OnWrite(t)
  \/ FatalError(t)
  \/ Abort(t)
  \/ Close(t)
  \/ Write(t)
  \/ WriteEof(t)
  \/ PauseReading(t)
  \/ ResumeReading(t)

Next ==
  \/ SetServer("T1")
  \/ SetProtocol("T1")
  \/ Handler("T1")
  \/ RunDeferred

Spec == Init /\ [][Next]_vars

\* Spec with the scheduling the loop and the handle provide: the handle
\* eventually completes pending writes (reporting each completion through
\* _on_write) and the loop eventually runs every deferred handle.
LiveSpec ==
  /\ Spec
  /\ WF_vars(OnWrite("T1"))
  /\ WF_vars(RunDeferred)

\* The flow-control handlers of transport t: the operations that change the
\* buffered size or the thresholds, and the teardown they can run into.  No
\* other method reads or writes _protocol_paused, _high_water or _low_water.
FlowHandler(t) ==
  \/ OnAccept(t)
  \/ OnWrite(t)
  \/ Write(t)
  \/ SetWriteBufferLimits(t)
  \/ Close(t)

FlowNext ==
  \/ SetProtocol("T1")
  \/ FlowHandler("T1")
  \/ RunDeferred

FlowSpec == Init /\ [][FlowNext]_vars

\* The handlers that attach a transport to the listener, take it to its final
\* teardown (deferred, or inline from _on_write once the buffer of a closing
\* transport has drained), or come after the teardown.
ServerHandler(t) ==
  \/ SetServer(t)
  \/ SetProtocol(t)
  \/ OnAccept(t)
  \/ Close(t)
  \/ Abort(t)

\* A write() on a transport that nobody has closed yet.
ServerWrite(t) ==
  /\ ~tr[t]._closing
  /\ Write(t)

\* Every transport is driven, so that they share the listener and the loop;
\* one of them also writes, so that its teardown can come from _on_write.
ServerNext ==
  \/ ServerHandler("T1")
  \/ ServerHandler("T2")
  \/ ServerWrite("T1")
  \/ OnWrite("T1")
  \/ RunDeferred

ServerSpec == Init /\ [][ServerNext]_vars

\* ================================================================ claims ==
\* Whether the loop's queue holds a deferred call of `method` on transport t.
Scheduled(t, method) ==
  \E i \in 1..Len(ready) : ready[i] = <<t, method>>

\* Whether the most recent handler invoked the protocol callback `name`.
Invoked(name) ==
  \E i \in 1..Len(last.calls) : last.calls[i] = name

\* C1: over every interleaving of close(), abort(), fatal errors, peer EOF,
\* write completions and deferred calls, the protocol receives
\* connection_lost() at most once.
C1_ConnectionLostAtMostOnce ==
  \A t \in Transports : proto[t].connection_lost <= 1

\* C1 witness: connection_lost() was delivered, and a later deferred
\* _call_connection_lost ran on the same transport without delivering it again.
C1_Witness ==
  /\ proto["T1"].connection_lost = 1
  /\ last.t = "T1"
  /\ last.op = "_call_connection_lost"
  /\ last.calls = << >>

\* C2: connection_lost() is delivered only after connection_made(): a
\* protocol that has received connection_lost() has received
\* connection_made() before, in an earlier handler, and a protocol that never
\* received connection_made() never receives connection_lost().
C2_LostOnlyAfterMade ==
  \A t \in Transports :
    /\ proto[t].connection_lost > 0 => proto[t].connection_made > 0
    /\ (last.t = t /\ Invoked("connection_lost")) => ~Invoked("connection_made")

\* C2 witness: abort() or close() came before the deferred connection_made()
\* ran; the teardown has completed without a connection_lost() call, and the
\* connection_made() handle is still waiting in the loop's queue.
C2_Witness ==
  /\ last.t = "T1"
  /\ last.op = "_call_connection_lost"
  /\ tr["T1"]._closed
  /\ proto["T1"].connection_made = 0
  /\ proto["T1"].connection_lost = 0
  /\ Scheduled("T1", "_call_connection_made")

\* C3: with flow control enabled, after write(), the write-completion hook
\* or set_write_buffer_limits() returns on a transport that is not closed,
\* the paused flag agrees with the buffered size: a size above high_water
\* implies paused, and paused implies a size above low_water.
C3_PausedConsistent ==
  \A t \in Transports :
    ( /\ last.t = t
      /\ last.op \in {"write", "_on_write", "set_write_buffer_limits"}
      /\ tr[t]._flow_control_enabled
      /\ ~tr[t]._closed )
    => /\ tr[t].write_buffer_size > tr[t]._high_water => tr[t]._protocol_paused
       /\ tr[t]._protocol_paused => tr[t].write_buffer_size > tr[t]._low_water

\* C3 witness: set_write_buffer_limits() lowered high_water below the
\* buffered size of an open transport and paused the protocol.
C3_Witness ==
  /\ last.t = "T1"
  /\ last.op = "set_write_buffer_limits"
  /\ last.calls = <<"pause_writing">>
  /\ ~tr["T1"]._closed
  /\ tr["T1"]._protocol_paused
  /\ tr["T1"].write_buffer_size > tr["T1"]._high_water
  /\ tr["T1"]._high_water < FLOW_CONTROL_HIGH_WATER

IsFlowCall(c) == c \in {"pause_writing", "resume_writing"}

\* The flow-control callbacks among the callbacks of a handler, in order.
FlowCalls(calls) == SelectSeq(calls, IsFlowCall)

\* What a handler on transport t has to satisfy for C4.
C4_Step(t) ==
  LET fc == FlowCalls(last'.calls)
      prev(i) == IF i = 1 THEN proto[t].flow ELSE fc[i - 1]
  IN  last'.t = t =>
        /\ Len(fc) <= 1
        /\ \A i \in 1..Len(fc) :
             /\ fc[i] # prev(i)
             /\ prev(i) = None => fc[i] = "pause_writing"
        /\ (\E i \in 1..Len(fc) : fc[i] = "pause_writing")
             => /\ ~tr[t]._protocol_paused
                /\ tr'[t]._protocol_paused
                /\ tr'[t].write_buffer_size > tr'[t]._high_water
        /\ (\E i \in 1..Len(fc) : fc[i] = "resume_writing")
             => /\ tr[t]._protocol_paused
                /\ ~tr'[t]._protocol_paused
                /\ tr'[t].write_buffer_size <= tr'[t]._low_water

\* C4: over any sequence of write(), write completions and
\* set_write_buffer_limits(), pause_writing() and resume_writing() alternate,
\* starting with pause_writing(); a handler makes at most one of these calls
\* (a write() that crosses high_water pauses once although it evaluates the
\* pause condition twice); pause_writing() is called only when the protocol
\* was not paused and the buffered size exceeds high_water, resume_writing()
\* only when it was paused and the buffered size is at or below low_water.
C4_PauseResumeAlternate ==
  [][\A t \in Transports : C4_Step(t)]_vars

\* C4 witness: the write-completion hook resumed a protocol that a write()
\* had paused.
C4_Witness ==
  /\ last.t = "T1"
  /\ last.op = "_on_write"
  /\ last.calls = <<"resume_writing">>
  /\ proto["T1"].flow = "resume_writing"
  /\ ~tr["T1"]._protocol_paused
  /\ tr["T1"].write_buffer_size <= tr["T1"]._low_water

\* close() found the write buffer non-empty and neither abort() nor a fatal
\* error has force-closed the transport since: closing is set, the loss
\* counter is still zero and the handle is not released.
Draining(t) ==
  /\ tr[t]._closing
  /\ ~tr[t]._closed
  /\ tr[t]._conn_lost = 0

\* What a handler on transport t has to satisfy for C5.
C5_Step(t) ==
  last'.t = t =>
    /\ ( /\ last'.op = "close"
         /\ ~tr[t]._closing /\ ~tr[t]._closed
         /\ tr[t].write_buffer_size > 0 )
       => /\ Draining(t)'
          /\ ready' = ready
          /\ last'.calls = << >>
    /\ ( /\ last'.op = "close"
         /\ ~tr[t]._closing /\ ~tr[t]._closed
         /\ tr[t].write_buffer_size = 0 )
       => /\ tr'[t]._closing /\ ~tr'[t]._closed
          /\ ready' = Append(ready, <<t, "_call_connection_lost">>)
          /\ last'.calls = << >>
          /\ proto' = proto
    /\ (Draining(t) /\ tr'[t]._conn_lost = 0)
       => /\ tr'[t].write_buffer_size > 0
             => /\ ~tr'[t]._closed
                /\ ~Scheduled(t, "_call_connection_lost")'
                /\ proto'[t].connection_lost = 0
          /\ tr'[t]._closed
             => /\ last'.op = "_on_write"
                /\ tr[t].write_buffer_size > 0
                /\ tr'[t].write_buffer_size = 0
          /\ tr'[t].write_buffer_size = 0 => tr'[t]._closed

\* C5: after close() on a transport with a non-empty write buffer, and as long
\* as no abort() or fatal error force-closes it, connection_lost() is neither
\* scheduled nor delivered and the handle is not released while the buffer is
\* non-empty; the teardown runs from the write-completion hook that first
\* finds the buffer empty, and only from it.  close() on a transport with an
\* empty buffer schedules connection_lost() as a deferred call and does not
\* call it.
C5_CloseWaitsForDrain ==
  /\ [](\A t \in Transports :
          Draining(t) => /\ tr[t].write_buffer_size > 0
                         /\ ~Scheduled(t, "_call_connection_lost")
                         /\ proto[t].connection_lost = 0)
  /\ [][\A t \in Transports : C5_Step(t)]_vars

\* C5 witness: after close(), a write completion left bytes in the buffer of
\* a connected transport; it is still draining and nothing was delivered.
C5_Witness ==
  /\ last.t = "T1"
  /\ last.op = "_on_write"
  /\ Draining("T1")
  /\ tr["T1"]._protocol_connected
  /\ tr["T1"].write_buffer_size > 0
  /\ proto["T1"].connection_lost = 0

\* What a handler on transport t has to satisfy for C6.
C6_Step(t) ==
  last'.t = t =>
    /\ ( /\ last'.op = "abort"
         /\ tr[t]._protocol_connected
         /\ tr[t]._conn_lost = 0 /\ ~tr[t]._closed
         /\ tr[t].write_buffer_size > 0 )
       => /\ tr'[t]._closing
          /\ ~tr'[t].reading
          /\ ~tr'[t]._closed
          /\ ready' = Append(ready, <<t, "_call_connection_lost">>)
          /\ last'.calls = << >>
          /\ proto' = proto
    /\ ( /\ last'.op = "_call_connection_lost"
         /\ tr[t]._protocol_connected
         /\ ~tr[t]._closed )
       => /\ last'.calls = <<"connection_lost">>
          /\ proto'[t].connection_lost = proto[t].connection_lost + 1
          /\ tr'[t]._closed

\* C6: abort() on a connected, not yet lost transport with a non-empty write
\* buffer (also one that close() left draining) sets closing, stops reading
\* and schedules connection_lost() as a deferred call without calling it; the
\* deferred call stays queued until the handle is released, and when the loop
\* runs it on a handle not yet released it delivers connection_lost() and
\* releases the handle whatever the write buffer holds.
\* (Violated: _force_close stops reading only when closing was not yet set,
\* and _call_connection_made starts reading on a transport that is closing.)
C6_AbortSkipsDrain ==
  /\ [](\A t \in Transports :
          (tr[t]._conn_lost > 0 /\ ~tr[t]._closed) => Scheduled(t, "_call_connection_lost"))
  /\ [][\A t \in Transports : C6_Step(t)]_vars

\* What a write() on transport t has to satisfy for C7.  A write() with a
\* non-empty payload is one that advances nwrites.
C7_Step(t) ==
  ( /\ last'.t = t
    /\ last'.op = "write"
    /\ nwrites'[t] = nwrites[t] + 1
    /\ ~tr[t]._eof
    /\ (tr[t]._conn_lost > 0 \/ tr[t]._closed) )
  => /\ tr'[t].write_buffer_size = tr[t].write_buffer_size
     /\ last'.raised = None
     /\ tr'[t]._conn_lost = tr[t]._conn_lost + 1

\* C7: write() of non-empty data, no EOF sent, on a transport whose connection
\* is lost (teardown scheduled, or completed and the handle released)
\* enqueues nothing, raises nothing and increments the loss counter, however
\* the transport got there.
\* (Violated: a close() that the write-completion hook finalizes never
\* increments _conn_lost, so write() goes on to the released handle.)
C7_WriteAfterLossDropped ==
  [][\A t \in Transports : C7_Step(t)]_vars

\* What a write() on transport t has to satisfy for C8.
C8_Step(t) ==
  /\ tr[t]._eof => tr'[t]._eof
  /\ (last'.t = t /\ last'.op = "write" /\ tr[t]._eof)
     => /\ last'.raised = "RuntimeError"
        /\ tr'[t] = tr[t]
        /\ proto' = proto
        /\ ready' = ready
        /\ last'.calls = << >>
        /\ last'.reported = << >>

\* C8: once write_eof() has been called the EOF flag stays set, and every
\* later write(), with any payload and in any lifecycle state, raises the
\* invalid-state error (RuntimeError), leaves the transport (write buffer,
\* loss counter, paused flag and all) unchanged and calls no protocol
\* callback.
C8_WriteAfterEofFails ==
  [][\A t \in Transports : C8_Step(t)]_vars

\* C8 witness: a write() was refused because of write_eof() on a transport
\* whose connection is already lost.
C8_Witness ==
  /\ last.t = "T1"
  /\ last.op = "write"
  /\ last.raised = "RuntimeError"
  /\ tr["T1"]._eof
  /\ tr["T1"]._conn_lost > 0

\* What a handler on transport t has to satisfy for C9.
C9_Step(t) ==
  last'.t = t =>
    /\ tr'[t].shutdowns # tr[t].shutdowns
       => /\ tr'[t].shutdowns = tr[t].shutdowns + 1
          /\ tr'[t].write_buffer_size = 0
          /\ \/ /\ last'.op = "write_eof"
                /\ ~tr[t]._eof
                /\ tr[t].write_buffer_size = 0
             \/ /\ last'.op = "_on_write"
                /\ tr[t]._eof
                /\ ~tr[t]._closing
                /\ tr[t].write_buffer_size > 0
    /\ (last'.op = "write_eof" /\ ~tr[t]._eof /\ tr[t].write_buffer_size = 0)
       => tr'[t].shutdowns = tr[t].shutdowns + 1
    /\ (last'.op = "write_eof" /\ tr[t]._eof)
       => tr'[t] = tr[t]
    /\ (last'.op = "_on_write" /\ tr[t]._eof /\ ~tr[t]._closing /\ tr'[t].write_buffer_size = 0)
       => tr'[t].shutdowns = tr[t].shutdowns + 1

\* C9: the half-close shutdown of the handle is performed at most once per
\* transport and only with an empty write buffer: by write_eof() if the
\* buffer is empty then, otherwise by the write-completion hook that first
\* finds the buffer empty (unless the transport is closing); a second
\* write_eof() changes nothing.
C9_ShutdownOnceWhenDrained ==
  /\ [](\A t \in Transports : tr[t].shutdowns <= 1)
  /\ [][\A t \in Transports : C9_Step(t)]_vars

\* C9 witness: write_eof() found bytes buffered, and the write-completion
\* hook that emptied the buffer performed the shutdown.
C9_Witness ==
  /\ last.t = "T1"
  /\ last.op = "_on_write"
  /\ tr["T1"]._eof
  /\ ~tr["T1"]._closing
  /\ tr["T1"].write_buffer_size = 0
  /\ tr["T1"].shutdowns = 1

\* Transport t has reached CLOSED: the handle is released and the protocol
\* reference cleared, and connection_lost() was delivered if connection_made()
\* had been delivered (had returned, which is what _protocol_connected records).
Closed(t) ==
  /\ tr[t]._closed
  /\ tr[t]._protocol = None
  /\ tr[t]._protocol_connected => proto[t].connection_lost = 1

C11_ClosingNeverReads ==
  \A t \in Transports : tr[t]._closing => ~tr[t].reading

\* The lifecycle state of a transport with the fields s, as its position in
\* the order FRESH, CONNECTED, CLOSING, CLOSED.
Lifecycle(s) ==
  IF s._closed THEN 3
  ELSE IF s._closing THEN 2
  ELSE IF s._protocol_connected THEN 1
  ELSE 0

\* What any step has to satisfy on transport t for C12.
C12_Step(t) ==
  /\ Lifecycle(tr'[t]) >= Lifecycle(tr[t])
  /\ tr[t]._closing => tr'[t]._closing
  /\ tr[t]._closed => tr'[t]._closed
  /\ tr[t]._closing => proto'[t].connection_made = proto[t].connection_made

\* C12: the lifecycle state derived from the flags only moves forward in the
\* order FRESH, CONNECTED, CLOSING, CLOSED: _closing and _closed are never
\* reset, and connection_made() is never delivered to the protocol once
\* _closing is set.
\* (Violated in its last part: the deferred _call_connection_made delivers
\* connection_made() on a transport that close(), abort() or a fatal error
\* has already marked closing.)
C12_LifecycleForward ==
  [][\A t \in Transports : C12_Step(t)]_vars

\* Whether a limit argument was given (is not None).
Given(a) == a # << >>

\* What a successful set_write_buffer_limits() does on a transport with the
\* fields s once the thresholds high and low are stored: the pause condition
\* is evaluated first, the resume condition after it.  The callbacks reach
\* the protocol as long as the transport still has one.
LimitEval(s, high, low) ==
  LET pause  == s._flow_control_enabled /\ s.write_buffer_size > high /\ ~s._protocol_paused
      paused == s._protocol_paused \/ pause
      resume == s._flow_control_enabled /\ paused /\ s.write_buffer_size <= low
      calls  == (IF pause THEN <<"pause_writing">> ELSE << >>)
                  \o (IF resume THEN <<"resume_writing">> ELSE << >>)
  IN  [ calls  |-> IF s._protocol # None THEN calls ELSE << >>,
        paused |-> paused /\ ~resume ]

\* What a set_write_buffer_limits() on transport t has to satisfy for C13.
C13_Step(t) ==
  (last'.t = t /\ last'.op = "set_write_buffer_limits")
  => LET high == last'.args[1]
         low  == last'.args[2]
     IN  /\ (Given(high) /\ Given(low))
              => (last'.raised = "ValueError" <=> ~(high[1] >= low[1] /\ low[1] >= 0))
         /\ last'.raised \in {None, "ValueError"}
         /\ last'.raised = "ValueError"
              => /\ tr'[t] = tr[t]
                 /\ proto' = proto
                 /\ last'.calls = << >>
                 /\ last'.reported = << >>
         /\ last'.raised = None
              => /\ Given(high) => tr'[t]._high_water = high[1]
                 /\ Given(low) => tr'[t]._low_water = low[1]
                 /\ tr'[t]._high_water >= tr'[t]._low_water
                 /\ tr'[t]._low_water >= 0
                 /\ LET e == LimitEval(tr[t], tr'[t]._high_water, tr'[t]._low_water)
                    IN  /\ last'.calls = e.calls
                        /\ tr'[t]._protocol_paused = e.paused

\* C13: _high_water >= _low_water >= 0 in every reachable state.  A
\* set_write_buffer_limits(high, low) whose values violate it (high below
\* low, or a negative low) fails with ValueError, leaves _high_water,
\* _low_water and _protocol_paused unchanged and calls no protocol callback;
\* a successful call stores the values and then evaluates the pause
\* condition followed by the resume condition.
C13_LimitsOrdered ==
  /\ [](\A t \in Transports :
          tr[t]._high_water >= tr[t]._low_water /\ tr[t]._low_water >= 0)
  /\ [][\A t \in Transports : C13_Step(t)]_vars

\* C13 witness: set_write_buffer_limits(high=1, low=2) has just failed with
\* ValueError on a transport whose protocol is paused.
C13_Witness ==
  /\ last.t = "T1"
  /\ last.op = "set_write_buffer_limits"
  /\ last.args = << <<1>>, <<2>> >>
  /\ last.raised = "ValueError"
  /\ tr["T1"]._protocol_paused

\* What a set_write_buffer_limits() on transport t has to satisfy for C14.
C14_Step(t) ==
  (last'.t = t /\ last'.op = "set_write_buffer_limits")
  => LET high == last'.args[1]
         low  == last'.args[2]
     IN  /\ (~Given(high) /\ last'.raised = None)
              => tr'[t]._high_water = FLOW_CONTROL_HIGH_WATER
         /\ (~Given(high) /\ Given(low) /\ low[1] >= 0 /\ low[1] <= FLOW_CONTROL_HIGH_WATER)
              => last'.raised = None
         /\ (Given(high) /\ ~Given(low))
              => /\ last'.raised = None
                 /\ tr'[t]._low_water = high[1] \div 4
         /\ (~Given(high) /\ ~Given(low))
              => /\ last'.raised = None
                 /\ tr'[t]._low_water = FLOW_CONTROL_LOW_WATER

\* C14: the defaults of set_write_buffer_limits(high, low).  Whenever high is
\* not given, _high_water becomes FLOW_CONTROL_HIGH_WATER, whether or not low
\* is given, so a call giving only a low between 0 and that constant
\* succeeds; when low is not given and high is, _low_water becomes high // 4;
\* when neither is given, _low_water becomes FLOW_CONTROL_LOW_WATER.
\* (Violated: with only low given, _set_write_buffer_limits takes
\* FLOW_CONTROL_LOW_WATER for high.)
C14_LimitDefaults ==
  [][\A t \in Transports : C14_Step(t)]_vars

\* Whether the step just taken ran _call_connection_lost on transport t while
\* its handle was not yet released: as the deferred call, or inline from
\* _on_write on a closing transport whose buffer has drained.
TeardownRan(t) ==
  /\ last'.t = t
  /\ ~tr[t]._closed
  /\ \/ last'.op = "_call_connection_lost"
     \/ /\ last'.op = "_on_write"
        /\ tr[t]._closing
        /\ tr'[t].write_buffer_size = 0

\* What a teardown on transport t has to satisfy for C15.
C15_Step(t) ==
  TeardownRan(t)
  => /\ tr'[t]._protocol = None
     /\ tr'[t]._protocol_data_received = None
     /\ tr'[t]._server = None
     /\ ActiveCount(active') = IF tr[t]._server # None THEN ActiveCount(active) - 1
                                                        ELSE ActiveCount(active)
     /\ tr'[t]._closed
     /\ tr[t]._protocol_connected <=> Invoked("connection_lost")'

\* C15: whenever _call_connection_lost runs on a transport whose handle is
\* not yet released, on its exit the protocol reference is cleared, the
\* transport is detached from its listener (if it has one) and the handle is
\* released, whether connection_lost() returned, raised, or was skipped
\* because connection_made() was never delivered.
C15_TeardownAlwaysCleansUp ==
  [][\A t \in Transports : C15_Step(t)]_vars

\* C15 witness: connection_lost() raised inside the deferred teardown of a
\* transport that had a listener; the transport is cleaned up all the same.
C15_Witness ==
  /\ last.t = "T1"
  /\ last.op = "_call_connection_lost"
  /\ last.calls = <<"connection_lost">>
  /\ last.raised = "Exception"
  /\ tr["T1"]._closed
  /\ tr["T1"]._protocol = None
  /\ tr["T1"]._server = None
  /\ active.attached["T1"] = 1
  /\ active.detached["T1"] = 1

\* The transports attached to the listener whose final teardown has not
\* completed.
AttachedAndOpen ==
  {t \in Transports : active.attached[t] > 0 /\ ~tr[t]._closed}

\* C16: with several transports sharing the listener, each transport calls
\* the listener's _detach at most once, the listener's count of active
\* connections (_attach calls minus _detach calls) equals the number of
\* attached transports whose final teardown has not completed, and once
\* every transport is closed the count is zero.
C16_ListenerCount ==
  /\ \A t \in Transports : active.detached[t] <= 1
  /\ ActiveCount(active) = Cardinality(AttachedAndOpen)
  /\ (\A t \in Transports : tr[t]._closed) => ActiveCount(active) = 0

\* C16 witness: both transports were attached and both are closed, the first
\* one torn down by _on_write after the second one's deferred teardown; each
\* has detached once.
C16_Witness ==
  /\ \A t \in Transports : active.attached[t] = 1 /\ active.detached[t] = 1
  /\ \A t \in Transports : tr[t]._closed
  /\ last.t = "T1"
  /\ last.op = "_on_write"

\* The errors that mean the peer ended the connection.
PeerTermination ==
  {"BrokenPipeError", "ConnectionResetError", "ConnectionAbortedError"}

\* What a fatal error on transport t has to satisfy for C17.
C17_Step(t) ==
  (last'.t = t /\ last'.op = "_fatal_error")
  => /\ last'.reported = IF last'.args[1] \in PeerTermination
                           THEN << >>
                           ELSE <<"Fatal error on transport">>
     /\ (tr[t]._conn_lost = 0 /\ ~tr[t]._closed)
          => /\ tr'[t]._closing
             /\ ~tr'[t].reading
             /\ tr'[t]._conn_lost > 0
             /\ ready' = Append(ready, <<t, "_call_connection_lost">>)
     /\ (tr[t]._conn_lost # 0 \/ tr[t]._closed)
          => /\ tr' = tr
             /\ proto' = proto
             /\ ready' = ready
             /\ active' = active

\* C17: a fatal error is reported to the loop's exception handler if and only
\* if it is not a BrokenPipeError, ConnectionResetError or
\* ConnectionAbortedError, and force-close follows in every case: on a
\* transport not yet lost or closed, closing is set afterwards, reading is
\* stopped, the loss counter is positive and exactly one deferred
\* _call_connection_lost has been scheduled; on one already lost or closed,
\* no state changes and nothing is scheduled.
\* (Violated: _force_close stops reading only when closing was not yet set,
\* and _call_connection_made starts reading on a transport that is closing.)
C17_FatalErrorForceCloses ==
  [][\A t \in Transports : C17_Step(t)]_vars

\* Whether the step just taken is a write(), _on_write or
\* set_write_buffer_limits() on transport t in which the protocol's
\* pause_writing() or resume_writing() was called and raised.
FlowCallbackRaised(t) ==
  /\ last'.t = t
  /\ \/ /\ last'.op \in {"write", "_on_write"}
        /\ Len(last'.args) = 1
        /\ last'.args[1] = "raise"
     \/ /\ last'.op = "set_write_buffer_limits"
        /\ Len(last'.args) = 3
        /\ last'.args[3] = "raise"

\* What the claim says of every such step: one report, no exception, the
\* paused flag as set before the callback, the data written still enqueued.
C18_Isolated(t) ==
  LET name == FlowCalls(last'.calls)[1]
  IN  /\ Len(FlowCalls(last'.calls)) = 1
      /\ last'.reported = IF name = "pause_writing"
                            THEN <<"protocol.pause_writing() failed">>
                            ELSE <<"protocol.resume_writing() failed">>
      /\ tr'[t]._protocol_paused = (name = "pause_writing")
      /\ last'.op = "write"
           => /\ name = "pause_writing"
              /\ tr'[t].write_buffer_size > tr[t].write_buffer_size
      /\ last'.op = "set_write_buffer_limits"
           => tr'[t].write_buffer_size = tr[t].write_buffer_size
      /\ last'.op = "_on_write" => name = "resume_writing"

\* C18 as stated: if pause_writing() or resume_writing() raises, the
\* exception is reported exactly once to the loop's exception handler and is
\* not propagated: the triggering write(), _on_write or
\* set_write_buffer_limits() completes normally, the written data stays
\* enqueued, the transport is not closed and _protocol_paused keeps the value
\* set just before the callback.
\* (Violated: _on_write goes on after the failed resume_writing(), and on a
\* closing transport whose buffer has drained it runs the final teardown.)
C18_FlowCallbackIsolated ==
  [][\A t \in Transports :
       FlowCallbackRaised(t)
       => /\ C18_Isolated(t)
          /\ last'.raised = None
          /\ ~tr'[t]._closed]_vars

\* C18 amended: as above, except that _on_write continues as it does when
\* resume_writing() returns: on a closing transport whose buffer has drained
\* it runs the final teardown, which releases the handle and lets an
\* exception of connection_lost() through; in every other case the handler
\* completes normally and the transport is not closed.
C18_FlowCallbackIsolatedUpToTeardown ==
  [][\A t \in Transports :
       FlowCallbackRaised(t)
       => /\ C18_Isolated(t)
          /\ IF /\ last'.op = "_on_write"
                /\ tr[t]._closing
                /\ tr'[t].write_buffer_size = 0
               THEN /\ tr'[t]._closed
                    /\ last'.raised # None => Invoked("connection_lost")'
               ELSE /\ ~tr'[t]._closed
                    /\ last'.raised = None]_vars

\* C18 witness: resume_writing() raised in the write-completion hook of a
\* closing transport; the failure was reported and the hook went on to the
\* final teardown.
C18_Witness ==
  /\ last.t = "T1"
  /\ last.op = "_on_write"
  /\ last.args = <<"raise">>
  /\ last.reported = <<"protocol.resume_writing() failed">>
  /\ ~tr["T1"]._protocol_paused
  /\ tr["T1"]._closed

\* C19: an exception of the protocol's connection_lost() never leaves the
\* final teardown: neither the deferred _call_connection_lost nor the
\* _on_write that ran the teardown inline ends with an exception after
\* calling connection_lost().
\* (Violated: the try block of _call_connection_lost has a finally clause
\* but no except clause, so the exception propagates once the cleanup is
\* done, and nothing reports it to the loop's exception handler.)
C19_ConnectionLostIsolated ==
  [][\A t \in Transports :
       ( /\ last'.t = t
         /\ last'.op \in {"_call_connection_lost", "_on_write"}
         /\ Invoked("connection_lost")' )
       => last'.raised = None]_vars

\* C20: the half-close shutdown of the handle is never invoked on a transport
\* that is closing or whose handle is released; in particular a write_eof()
\* after close(), abort() or the completed teardown invokes no shutdown.
\* (Violated: write_eof() tests only _eof and the buffered size before it
\* calls _shutdown().)
C20_NoShutdownOnceClosing ==
  [][\A t \in Transports :
       (tr[t]._closing \/ tr[t]._closed)
       => tr'[t].shutdowns = tr[t].shutdowns]_vars

====
